---- MODULE Spec2Model ----
(***************************************************************************)
(* EmAndF1Evaluator (src/src/compute_em_and_f1.py): the running sums of    *)
(* exact match, F1, precision and recall of a question-answering model,    *)
(* broken down by answer type and by answering head.                       *)
(*                                                                         *)
(* Python floats are modelled as a binary floating-point format with a     *)
(* significand of MantBits bits (53 in the interpreter), rounding to       *)
(* nearest, ties to even; 1.0 is One units of the smallest step.  Python   *)
(* ints (the counts) are exact.  Python dicts are association lists in     *)
(* insertion order, which is the order the loops of get_metric visit.      *)
(***************************************************************************)
EXTENDS Integers, Sequences, FiniteSets, Bags

VARIABLES acc, ret, updates, inp, parts, todo, rounded

vars == <<acc, ret, updates, inp, parts, todo, rounded>>

----------------------------------------------------------------------------
(* Bounds *)

\* Significand bits of the modelled float format.
MantBits == 2
\* Completed updates per accumulator in one run.
MaxUpdates == 3
\* Ground truths per update in the study of the max-over-ground-truths step.
MaxGts == 3

----------------------------------------------------------------------------
(* Floats *)

RECURSIVE Pow2(_)
Pow2(n) == IF n = 0 THEN 1 ELSE 2 * Pow2(n - 1)

\* The float 1.0, in units of the smallest step of the format: adding one
\* step to it is the first addition that rounds.
One == Pow2(MantBits)

\* n / m rounded to the nearest integer, ties to even.
RoundHalfEven(n, m) ==
    LET q == n \div m
        r == n % m
    IN  IF 2 * r < m THEN q
        ELSE IF 2 * r > m THEN q + 1
        ELSE IF q % 2 = 0 THEN q ELSE q + 1

\* The exponent of n / d: the largest e >= 0 with n / d >= 2^(MantBits-1+e).
RECURSIVE FloatExp(_, _, _)
FloatExp(n, d, e) ==
    IF Pow2(e + MantBits) * d <= n THEN FloatExp(n, d, e + 1) ELSE e

\* The float nearest to the rational n / d (n >= 0, d > 0).
RoundRat(n, d) ==
    LET e == FloatExp(n, d, 0)
    IN  RoundHalfEven(n, d * Pow2(e)) * Pow2(e)

\* a + b on floats (the += of lines 54-57, 62-65, 102-110).
FAdd(a, b) == RoundRat(a + b, 1)

\* a / n on a float and an int (lines 78-81, 113-122).
FDiv(a, n) == RoundRat(a, n)

\* Max2 with a fault: the score just computed replaces the running maximum.
Max2Last(a, b) == b

\* max(a, b) of Python (lines 162-165): b only when it is greater.
Max2(a, b) == IF b > a THEN b ELSE a

----------------------------------------------------------------------------
(* Strings and dicts *)

\* The characters str.strip() removes, those that occur in the inputs.
Whitespace == {" ", "\t", "\n"}

IsSpace(c) == c \in Whitespace

\* str.strip(): a string is the sequence of its characters.
RECURSIVE LStrip(_)
LStrip(s) == IF s # <<>> /\ IsSpace(Head(s)) THEN LStrip(Tail(s)) ELSE s

RECURSIVE RStrip(_)
RStrip(s) ==
    IF s # <<>> /\ IsSpace(s[Len(s)])
    THEN RStrip(SubSeq(s, 1, Len(s) - 1))
    ELSE s

\* Strip with a fault: the string is compared as it is.
StripNothing(s) == s

Strip(s) == RStrip(LStrip(s))

\* seq[k] of Python: k counts from 0, a negative k counts from the end.
PyIndex(seq, k) == IF k < 0 THEN seq[Len(seq) + k + 1] ELSE seq[k + 1]

EmptyDict == <<>>

DictKeys(d) == {d[i].key : i \in DOMAIN d}

DictIndex(d, k) == CHOOSE i \in DOMAIN d : d[i].key = k

\* d[k] of a defaultdict whose missing entries read as dflt.
DictGet(d, k, dflt) ==
    IF k \in DictKeys(d) THEN d[DictIndex(d, k)].val ELSE dflt

\* d[k] = v: a new key goes last.
DictSet(d, k, v) ==
    IF k \in DictKeys(d)
    THEN [d EXCEPT ![DictIndex(d, k)].val = v]
    ELSE Append(d, [key |-> k, val |-> v])

\* m[t][h] += x on a defaultdict of defaultdict(float).
FAddAt(m, t, h, x) ==
    LET inner == DictGet(m, t, EmptyDict)
    IN  DictSet(m, t, DictSet(inner, h, FAdd(DictGet(inner, h, 0), x)))

\* IncAt with a fault: the cell count is set to 1, not incremented.
IncAtOverwrite(m, t, h) ==
    LET inner == DictGet(m, t, EmptyDict)
    IN  DictSet(m, t, DictSet(inner, h, 1))

\* m[t][h] += 1 on a defaultdict of defaultdict(int).
IncAt(m, t, h) ==
    LET inner == DictGet(m, t, EmptyDict)
    IN  DictSet(m, t, DictSet(inner, h, DictGet(inner, h, 0) + 1))

----------------------------------------------------------------------------
(* The collaborators: src.evaluate's answer_json_to_strings and get_metrics *)

MetricNames == <<"em", "f1", "p", "r">>
MetricSet == {"em", "f1", "p", "r"}

\* An annotation carries what the normalizer makes of it: the answer strings
\* and the answer type, or a failure.
Ann5     == [id |-> "5", ok |-> TRUE, strings |-> << <<"5">> >>, type |-> "number"]
Ann7     == [id |-> "7", ok |-> TRUE, strings |-> << <<"7">> >>, type |-> "span"]
AnnEmpty == [id |-> "empty", ok |-> TRUE, strings |-> << <<>> >>, type |-> "span"]
AnnBlank == [id |-> "blank", ok |-> TRUE, strings |-> << <<" ", "\t">> >>, type |-> "date"]
AnnNone  == [id |-> "none", ok |-> TRUE, strings |-> <<>>, type |-> "span"]
AnnBad   == [id |-> "bad", ok |-> FALSE, strings |-> <<>>, type |-> "span"]

\* answer_json_to_strings(annotation) (line 48).
answer_json_to_strings(annotation) ==
    [raised |-> ~annotation.ok,
     strings |-> annotation.strings,
     type |-> annotation.type]

\* Score tuples (em, f1, p, r) a scorer may return.
ScoreZero == <<0, 0, 0, 0>>
ScoreOne  == <<One, One, One, One>>
ScoreP    == <<0, 2, One, 1>>
ScoreR    == <<0, 2, 1, One>>

Scored(t) == [raised |-> FALSE, score |-> t]
ScorerRaises == [raised |-> TRUE, score |-> ScoreZero]

\* compute_em_and_f1(prediction, ground_truth) (line 160): a prediction is
\* known by what the scorer makes of it against each answer-string list.
compute_em_and_f1(prediction, ground_truth) == prediction[ground_truth]

----------------------------------------------------------------------------
(* metric_max_over_ground_truths (lines 145-169) *)

\* The condition of line 161.
TakesPart(ground_truth) ==
    \/ Len(ground_truth) = 0
    \/ (Len(ground_truth) > 0 /\ Strip(ground_truth[1]) # <<>>)

\* Records with a fault: the index moves only on a strict improvement.
RecordsStrict(maxima, old, score) ==
    /\ maxima = score
    /\ old # score

\* Records with a fault: only em and f1 are compared, as in drop_eval.
RecordsEmF1(maxima, old, score) ==
    /\ maxima[1] = score[1]
    /\ maxima[2] = score[2]

\* The condition of line 166, on the maxima after lines 162-165; old is the
\* maxima before them.
Records(maxima, old, score) == maxima = score

\* The loop of lines 159-167 from index i (counted from 1) on.
RECURSIVE max_loop(_, _, _, _, _)
max_loop(prediction, ground_truths, i, maxima, maximizing_index) ==
    IF i > Len(ground_truths)
    THEN [raised |-> FALSE, max |-> maxima, maximizing_index |-> maximizing_index]
    ELSE LET ground_truth == ground_truths[i]
             res == compute_em_and_f1(prediction, ground_truth)
             new == << Max2(maxima[1], res.score[1]), Max2(maxima[2], res.score[2]),
                       Max2(maxima[3], res.score[3]), Max2(maxima[4], res.score[4]) >>
         IN  IF res.raised
             THEN [raised |-> TRUE, max |-> maxima, maximizing_index |-> maximizing_index]
             ELSE IF TakesPart(ground_truth)
             THEN max_loop(prediction, ground_truths, i + 1, new,
                           IF Records(new, maxima, res.score)
                           THEN i - 1 ELSE maximizing_index)
             ELSE max_loop(prediction, ground_truths, i + 1, maxima, maximizing_index)

metric_max_over_ground_truths(prediction, ground_truths) ==
    max_loop(prediction, ground_truths, 1, <<0, 0, 0, 0>>, -1)

----------------------------------------------------------------------------
(* The evaluator *)

\* __init__ (lines 20-30) and reset (lines 129-139).
FreshState ==
    [total |-> [em |-> 0, f1 |-> 0, p |-> 0, r |-> 0],
     count |-> 0,
     answer_type_head |->
        [em |-> EmptyDict, f1 |-> EmptyDict, p |-> EmptyDict, r |-> EmptyDict,
         count |-> EmptyDict]]

Raise(self, error) == [raised |-> error, self |-> self, value |-> <<>>]

\* AddTotals with a fault: line 58 is left out.
AddTotalsNoCount(self, score) ==
    [self EXCEPT !.total = [em |-> FAdd(@.em, score[1]), f1 |-> FAdd(@.f1, score[2]),
                            p |-> FAdd(@.p, score[3]), r |-> FAdd(@.r, score[4])]]

\* Lines 54-58: the top-level sums and the count.
AddTotals(self, score) ==
    [self EXCEPT !.total = [em |-> FAdd(@.em, score[1]), f1 |-> FAdd(@.f1, score[2]),
                            p |-> FAdd(@.p, score[3]), r |-> FAdd(@.r, score[4])],
                 !.count = @ + 1]

\* Lines 62-66: the cell (answer_type, predicted_ability) of the five maps.
AddCell(self, answer_type, predicted_ability, score) ==
    [self EXCEPT !.answer_type_head =
        [em |-> FAddAt(@.em, answer_type, predicted_ability, score[1]),
         f1 |-> FAddAt(@.f1, answer_type, predicted_ability, score[2]),
         p |-> FAddAt(@.p, answer_type, predicted_ability, score[3]),
         r |-> FAddAt(@.r, answer_type, predicted_ability, score[4]),
         count |-> IncAt(@.count, answer_type, predicted_ability)]]

\* call with a fault: line 58 comes first, before the ground truths are
\* normalized and scored, so a failure leaves the count incremented.
callCountFirst(self, prediction, ground_truths, predicted_ability) ==
    LET early == [self EXCEPT !.count = @ + 1]
        normalized == [i \in DOMAIN ground_truths |->
                          answer_json_to_strings(ground_truths[i])]
        strings == [i \in DOMAIN ground_truths |-> normalized[i].strings]
        best == metric_max_over_ground_truths(prediction, strings)
        answer_type == PyIndex(normalized, best.maximizing_index).type
    IN  IF \E i \in DOMAIN ground_truths : normalized[i].raised
        THEN Raise(early, "normalizer")
        ELSE IF Len(ground_truths) = 0 THEN Raise(early, "ValueError")
        ELSE IF best.raised THEN Raise(early, "scorer")
        ELSE [raised |-> "none",
              self |-> AddCell([AddTotals(self, best.max) EXCEPT !.count = early.count],
                              answer_type, predicted_ability, best.max),
              value |-> <<best.max, PyIndex(ground_truths, best.maximizing_index)>>]

\* call (lines 45-68): the outcome (raised), the state it leaves and what it
\* returns.  Line 48 normalizes every ground truth, then unpacks the zip, which
\* fails on an empty list; line 49 scores; lines 54-66 update the state.
call(self, prediction, ground_truths, predicted_ability) ==
    LET normalized == [i \in DOMAIN ground_truths |->
                          answer_json_to_strings(ground_truths[i])]
        strings == [i \in DOMAIN ground_truths |-> normalized[i].strings]
        best == metric_max_over_ground_truths(prediction, strings)
        answer_type == PyIndex(normalized, best.maximizing_index).type
    IN  IF \E i \in DOMAIN ground_truths : normalized[i].raised
        THEN Raise(self, "normalizer")
        ELSE IF Len(ground_truths) = 0 THEN Raise(self, "ValueError")
        ELSE IF best.raised THEN Raise(self, "scorer")
        ELSE [raised |-> "none",
              self |-> AddCell(AddTotals(self, best.max), answer_type,
                              predicted_ability, best.max),
              value |-> <<best.max, PyIndex(ground_truths, best.maximizing_index)>>]

\* The parameters call binds after self (line 45).
callParams == <<"prediction", "ground_truths", "predicted_ability">>

\* self.call(*args): a TypeError unless every parameter gets a value.
Invoke(self, args) ==
    IF Len(args) # Len(callParams)
    THEN Raise(self, "TypeError")
    ELSE call(self, args[1], args[2], args[3])

\* dunder_call with a fault: the head label is passed on, with a default.
dunder_call_with_head(self, prediction, ground_truths) ==
    Invoke(self, <<prediction, ground_truths, "span_head">>)

\* __call__ (lines 33-43): self.call(prediction, ground_truths).
dunder_call(self, prediction, ground_truths) ==
    Invoke(self, <<prediction, ground_truths>>)

\* reset (lines 129-139).
reset(self) == [raised |-> "none", self |-> FreshState, value |-> <<>>]

----------------------------------------------------------------------------
(* get_metric (lines 71-126) *)

ZeroSums == [em |-> 0, f1 |-> 0, p |-> 0, r |-> 0]

\* self._answer_type_head_<m>[answer_type][head] (lines 102-116).
CellOf(self, m, answer_type, head) ==
    DictGet(DictGet(self.answer_type_head[m], answer_type, EmptyDict), head, 0)

\* (sums.em / count, sums.f1 / count, sums.p / count, sums.r / count, count)
\* (lines 117, 119, 122).
Entry(sums, count) ==
    <<FDiv(sums.em, count), FDiv(sums.f1, count), FDiv(sums.p, count),
      FDiv(sums.r, count), count>>

\* Lines 83-91: the locals of get_metric.
Locals ==
    [raised |-> FALSE,
     scores_per_answer_type_and_head |-> EmptyDict,
     scores_per_answer_type |-> EmptyDict,
     scores_per_head |-> EmptyDict,
     sum_per_head |-> [em |-> EmptyDict, f1 |-> EmptyDict, p |-> EmptyDict, r |-> EmptyDict],
     count_per_head |-> EmptyDict,
     type_count |-> 0,
     type_sum |-> ZeroSums]

\* head_step with a fault: line 111 assigns (=) where it should add (+=).
head_step_no_head_count(self, answer_type, head, count, g) ==
    LET cell == [m \in MetricSet |-> CellOf(self, m, answer_type, head)]
    IN  IF count = 0 THEN [g EXCEPT !.raised = TRUE]
        ELSE [g EXCEPT
            !.type_count = @ + count,
            !.type_sum = [m \in MetricSet |-> FAdd(@[m], cell[m])],
            !.sum_per_head = [m \in MetricSet |->
                DictSet(@[m], head, FAdd(DictGet(@[m], head, 0), cell[m]))],
            !.count_per_head = DictSet(@, head, count),
            !.scores_per_answer_type_and_head =
                DictSet(@, answer_type,
                        DictSet(DictGet(@, answer_type, EmptyDict), head,
                                Entry(cell, count)))]

\* Lines 101-117: one pass of the inner loop; a count of 0 divides by zero.
head_step(self, answer_type, head, count, g) ==
    LET cell == [m \in MetricSet |-> CellOf(self, m, answer_type, head)]
    IN  IF count = 0 THEN [g EXCEPT !.raised = TRUE]
        ELSE [g EXCEPT
            !.type_count = @ + count,
            !.type_sum = [m \in MetricSet |-> FAdd(@[m], cell[m])],
            !.sum_per_head = [m \in MetricSet |->
                DictSet(@[m], head, FAdd(DictGet(@[m], head, 0), cell[m]))],
            !.count_per_head = DictSet(@, head, DictGet(@, head, 0) + count),
            !.scores_per_answer_type_and_head =
                DictSet(@, answer_type,
                        DictSet(DictGet(@, answer_type, EmptyDict), head,
                                Entry(cell, count)))]

\* The loop of line 100 from entry k on.
RECURSIVE head_loop(_, _, _, _, _)
head_loop(self, answer_type, head_count, k, g) ==
    IF k > Len(head_count) \/ g.raised THEN g
    ELSE head_loop(self, answer_type, head_count, k + 1,
                   head_step(self, answer_type, head_count[k].key,
                             head_count[k].val, g))

\* The loop of line 93 from entry j on (lines 94-119).
RECURSIVE type_loop(_, _, _)
type_loop(self, j, g) ==
    IF j > Len(self.answer_type_head.count) \/ g.raised THEN g
    ELSE LET answer_type == self.answer_type_head.count[j].key
             head_count == self.answer_type_head.count[j].val
             g1 == head_loop(self, answer_type, head_count, 1,
                             [g EXCEPT !.type_count = 0, !.type_sum = ZeroSums])
         IN  IF g1.raised \/ g1.type_count = 0
             THEN [g1 EXCEPT !.raised = TRUE]
             ELSE type_loop(self, j + 1,
                    [g1 EXCEPT !.scores_per_answer_type =
                        DictSet(@, answer_type, Entry(g1.type_sum, g1.type_count))])

\* The loop of lines 121-122 from entry k on.
RECURSIVE per_head_loop(_, _)
per_head_loop(k, g) ==
    IF k > Len(g.count_per_head) THEN g
    ELSE LET head == g.count_per_head[k].key
             count == g.count_per_head[k].val
         IN  per_head_loop(k + 1,
                [g EXCEPT !.scores_per_head =
                    DictSet(@, head,
                            Entry([m \in MetricSet |-> DictGet(g.sum_per_head[m], head, 0)],
                                  count))])

\* Lines 78-81: the overall averages, 0 when nothing was counted.
Overall(self) ==
    IF self.count > 0
    THEN <<FDiv(self.total.em, self.count), FDiv(self.total.f1, self.count),
           FDiv(self.total.p, self.count), FDiv(self.total.r, self.count)>>
    ELSE <<0, 0, 0, 0>>

\* Lines 78-122 and the tuple of line 126.
Views(self) ==
    LET g == type_loop(self, 1, Locals)
        h == IF g.raised THEN g ELSE per_head_loop(1, g)
    IN  [raised |-> g.raised,
         value |-> <<Overall(self), h.scores_per_answer_type_and_head,
                     h.scores_per_answer_type, h.scores_per_head>>]

\* get_metric with a fault: the reset of line 125 runs before the views are
\* computed.
get_metric_reset_first(self, do_reset) ==
    LET start == IF do_reset THEN reset(self).self ELSE self
        v == Views(start)
    IN  IF v.raised THEN Raise(self, "ZeroDivisionError")
        ELSE [raised |-> "none", self |-> start, value |-> v.value]

\* get_metric(reset) (lines 71-126).
get_metric(self, do_reset) ==
    LET v == Views(self)
    IN  IF v.raised THEN Raise(self, "ZeroDivisionError")
        ELSE [raised |-> "none",
              self |-> IF do_reset THEN reset(self).self ELSE self,
              value |-> v.value]

----------------------------------------------------------------------------
(* Inputs *)

Heads == {"span_head", "count_head"}

\* The sequences over S of length at most n.
RECURSIVE SeqsUpTo(_, _)
SeqsUpTo(S, n) ==
    IF n = 0 THEN {<<>>}
    ELSE LET shorter == SeqsUpTo(S, n - 1)
         IN  shorter \cup {Append(q, x) : q \in shorter, x \in S}

\* The answer-string lists the scorer is given for these ground truths.
StringsOf(ground_truths) ==
    {ground_truths[i].strings : i \in {j \in DOMAIN ground_truths : ground_truths[j].ok}}

\* The predictions for these ground truths, told apart by what the scorer
\* makes of each against every answer-string list: one of outcomes.
Predictions(ground_truths, outcomes) == [StringsOf(ground_truths) -> outcomes]

Input(prediction, ground_truths, predicted_ability) ==
    [prediction |-> prediction, ground_truths |-> ground_truths,
     predicted_ability |-> predicted_ability]

\* The ground-truth lists and the scorer's outcomes in a run of the evaluator.
RunLists == {<<>>, <<Ann5>>, <<Ann7>>, <<Ann5, Ann7>>, <<Ann7, AnnBad>>, <<AnnBad, Ann5>>}
RunOutcomes == {Scored(ScoreOne), Scored(ScoreP), ScorerRaises}

\* The same in the study of the max-over-ground-truths step.
MaxLists == SeqsUpTo({Ann5, Ann7, AnnEmpty, AnnBlank, AnnNone}, MaxGts)
MaxOutcomes == {Scored(ScoreZero), Scored(ScoreOne), Scored(ScoreP), Scored(ScoreR)}

NoInput == [prediction |-> <<>>, ground_truths |-> <<>>, predicted_ability |-> ""]

Outcome(op, do_reset, out) ==
    [op |-> op, reset |-> do_reset, raised |-> out.raised, value |-> out.value]

----------------------------------------------------------------------------
(* A run of one evaluator *)

Init ==
    /\ acc = FreshState
    /\ ret = [op |-> "init", reset |-> FALSE, raised |-> "none", value |-> <<>>]
    /\ updates = 0
    /\ inp = NoInput
    /\ parts = <<FreshState, FreshState>>
    /\ todo = EmptyBag
    /\ rounded = FALSE

\* evaluator.call(prediction, ground_truths, predicted_ability)
Call(i) ==
    /\ acc.count < MaxUpdates
    /\ \E out \in {call(acc, i.prediction, i.ground_truths, i.predicted_ability)} :
           /\ acc' = out.self
           /\ ret' = Outcome("call", FALSE, out)
           /\ updates' = IF out.raised = "none" THEN updates + 1 ELSE updates
    /\ UNCHANGED <<inp, parts, todo, rounded>>

\* evaluator(prediction, ground_truths)
DunderCall(i) ==
    /\ \E out \in {dunder_call(acc, i.prediction, i.ground_truths)} :
           /\ acc' = out.self
           /\ ret' = Outcome("__call__", FALSE, out)
           /\ updates' = IF out.raised = "none" THEN updates + 1 ELSE updates
    /\ UNCHANGED <<inp, parts, todo, rounded>>

\* evaluator.get_metric(reset)
GetMetric(do_reset) ==
    /\ \E out \in {get_metric(acc, do_reset)} :
           /\ acc' = out.self
           /\ ret' = Outcome("get_metric", do_reset, out)
           /\ updates' = IF do_reset /\ out.raised = "none" THEN 0 ELSE updates
    /\ UNCHANGED <<inp, parts, todo, rounded>>

\* evaluator.reset()
Reset ==
    /\ \E out \in {reset(acc)} :
           /\ acc' = out.self
           /\ ret' = Outcome("reset", FALSE, out)
           /\ updates' = 0
    /\ UNCHANGED <<inp, parts, todo, rounded>>

Next ==
    \/ \E g \in RunLists, h \in Heads :
            \E pr \in Predictions(g, RunOutcomes) : Call(Input(pr, g, h))
    \/ \E g \in RunLists :
            \E pr \in Predictions(g, RunOutcomes) : DunderCall(Input(pr, g, ""))
    \/ \E do_reset \in BOOLEAN : GetMetric(do_reset)
    \/ Reset

Spec == Init /\ [][Next]_vars

----------------------------------------------------------------------------
(* One update of a fresh evaluator, over every input *)

InitMax ==
    /\ acc = FreshState
    /\ ret = [op |-> "init", reset |-> FALSE, raised |-> "none", value |-> <<>>]
    /\ updates = 0
    /\ \E g \in MaxLists :
            \E pr \in Predictions(g, MaxOutcomes) : inp = Input(pr, g, "span_head")
    /\ parts = <<FreshState, FreshState>>
    /\ todo = EmptyBag
    /\ rounded = FALSE

ApplyCall ==
    /\ ret.op = "init"
    /\ \E out \in {call(acc, inp.prediction, inp.ground_truths, inp.predicted_ability)} :
           /\ acc' = out.self
           /\ ret' = Outcome("call", FALSE, out)
           /\ updates' = IF out.raised = "none" THEN updates + 1 ELSE updates
    /\ UNCHANGED <<inp, parts, todo, rounded>>

NextMax == ApplyCall

SpecMax == InitMax /\ [][NextMax]_vars

----------------------------------------------------------------------------
(* One evaluator over all the examples, and two evaluators that share them *)

\* The prediction the scorer gives this outcome against annotation ann.
PredictionScoring(ann, outcome) == [s \in {ann.strings} |-> outcome]

\* The examples: calls that succeed, over two answer types, two heads and two
\* scores, two of them in the same cell.
MergeExamples ==
    {Input(PredictionScoring(Ann5, Scored(ScoreOne)), <<Ann5>>, "span_head"),
     Input(PredictionScoring(Ann5, Scored(ScoreP)), <<Ann5>>, "span_head"),
     Input(PredictionScoring(Ann7, Scored(ScoreP)), <<Ann7>>, "count_head"),
     Input(PredictionScoring(Ann7, Scored(ScoreOne)), <<Ann7>>, "span_head")}

\* Whether a float addition of this call, made on state self, rounded.
CallRounds(self, i, out) ==
    /\ out.raised = "none"
    /\ \E c \in 1..4 :
          LET m == MetricNames[c]
              x == out.value[1][c]
              cell == CellOf(self, m, answer_json_to_strings(out.value[2]).type,
                             i.predicted_ability)
          IN  \/ FAdd(self.total[m], x) # self.total[m] + x
              \/ FAdd(cell, x) # cell + x

\* The single evaluator takes the next example; the example waits for a part.
FeedWhole(i) ==
    /\ acc.count < MaxUpdates
    /\ \E out \in {call(acc, i.prediction, i.ground_truths, i.predicted_ability)} :
           /\ acc' = out.self
           /\ rounded' = (rounded \/ CallRounds(acc, i, out))
    /\ todo' = todo (+) SetToBag({i})
    /\ UNCHANGED <<ret, updates, inp, parts>>

\* Part n takes any waiting example e.
FeedPart(e, n) ==
    /\ \E out \in {call(parts[n], e.prediction, e.ground_truths, e.predicted_ability)} :
           /\ parts' = [parts EXCEPT ![n] = out.self]
           /\ rounded' = (rounded \/ CallRounds(parts[n], e, out))
    /\ todo' = todo (-) SetToBag({e})
    /\ UNCHANGED <<acc, ret, updates, inp>>

NextMerge ==
    \/ \E i \in MergeExamples : FeedWhole(i)
    \/ \E e \in BagToSet(todo), n \in {1, 2} : FeedPart(e, n)

SpecMerge == Init /\ [][NextMerge]_vars

\* The keys (answer type, head) of a map and the map as a function of them.
CellKeys(m) ==
    UNION {{<<m[i].key, m[i].val[j].key>> : j \in DOMAIN m[i].val} : i \in DOMAIN m}

CellMap(m) ==
    [k \in CellKeys(m) |-> DictGet(DictGet(m, k[1], EmptyDict), k[2], 0)]

MapNames == MetricSet \cup {"count"}

\* What an evaluator holds, whatever the insertion order of its maps.
Content(self) ==
    [total |-> [m \in MetricSet |-> self.total[m]],
     count |-> self.count,
     cells |-> [n \in MapNames |-> CellMap(self.answer_type_head[n])]]

\* The merge of two evaluators: the sums and the counts added, the maps key by
\* key, a key one of them lacks reading as zero.
MergedCell(a, b, n, k) ==
    LET x == DictGet(DictGet(a.answer_type_head[n], k[1], EmptyDict), k[2], 0)
        y == DictGet(DictGet(b.answer_type_head[n], k[1], EmptyDict), k[2], 0)
    IN  [exact |-> x + y, float |-> IF n = "count" THEN x + y ELSE FAdd(x, y)]

Merge(a, b) ==
    [total |-> [m \in MetricSet |-> FAdd(a.total[m], b.total[m])],
     count |-> a.count + b.count,
     cells |-> [n \in MapNames |->
                  [k \in CellKeys(a.answer_type_head[n]) \cup CellKeys(b.answer_type_head[n])
                      |-> MergedCell(a, b, n, k).float]]]

\* Whether a float addition of the merge rounds.
MergeRounds(a, b) ==
    \/ \E m \in MetricSet : FAdd(a.total[m], b.total[m]) # a.total[m] + b.total[m]
    \/ \E n \in MetricSet :
          \E k \in CellKeys(a.answer_type_head[n]) \cup CellKeys(b.answer_type_head[n]) :
              MergedCell(a, b, n, k).float # MergedCell(a, b, n, k).exact

----------------------------------------------------------------------------
(* Properties of a run: helpers *)

\* The support counts of a view (a dict of 5-tuples), added up.
RECURSIVE SumCount(_)
SumCount(d) == IF d = <<>> THEN 0 ELSE d[1].val[5] + SumCount(Tail(d))

\* The support counts of head h in per_type_per_head, added over the types.
RECURSIVE HeadTotal(_, _)
HeadTotal(tph, h) ==
    IF tph = <<>> THEN 0
    ELSE (IF h \in DictKeys(tph[1].val) THEN DictGet(tph[1].val, h, <<>>)[5] ELSE 0)
         + HeadTotal(Tail(tph), h)

\* The counts of the cells of a map of counts, added up.
RECURSIVE SumCells(_)
SumCells(m) ==
    IF m = <<>> THEN 0
    ELSE LET inner == m[1].val
             RECURSIVE S(_)
             S(d) == IF d = <<>> THEN 0 ELSE d[1].val + S(Tail(d))
         IN  S(inner) + SumCells(Tail(m))

\* The four views agree on the counts, and add up to n.
ViewsConsistent(v, n) ==
    LET tph == v[2]
        pt == v[3]
        ph == v[4]
    IN  /\ DictKeys(tph) = DictKeys(pt)
        /\ \A i \in DOMAIN tph :
              SumCount(tph[i].val) = DictGet(pt, tph[i].key, <<>>)[5]
        /\ DictKeys(ph) = UNION {DictKeys(tph[i].val) : i \in DOMAIN tph}
        /\ \A k \in DOMAIN ph : HeadTotal(tph, ph[k].key) = ph[k].val[5]
        /\ SumCount(pt) = n
        /\ SumCount(ph) = n

\* What summarize returns on a fresh evaluator.
ZeroViews == <<(<<0, 0, 0, 0>>), EmptyDict, EmptyDict, EmptyDict>>

----------------------------------------------------------------------------
(* Properties of a run *)

\* C1, as stated: the overall view that summarize returns carries a support
\* count, equal to the number of updates completed since the last reset.
C1_OverallCarriesSupportCount ==
    [][ret'.op = "get_metric"
          => Len(ret'.value[1]) = 5 /\ ret'.value[1][5] = updates]_vars

\* C1, amended: the overall view is the four averages alone; the number of
\* updates completed since the last reset is the evaluator's count, and it is
\* the sum of the support counts of the per_type view and of the per_head view
\* that summarize returns.
C1_SupportCountIsUpdates ==
    /\ [](acc.count = updates)
    /\ [][ret'.op = "get_metric"
            => /\ ret'.raised = "none"
               /\ Len(ret'.value[1]) = 4
               /\ SumCount(ret'.value[3]) = updates
               /\ SumCount(ret'.value[4]) = updates]_vars

C1_Witness ==
    /\ ret.op = "get_metric"
    /\ ret.reset
    /\ Len(ret.value[1]) = 4
    /\ SumCount(ret.value[3]) = 3
    /\ updates = 0

\* The five maps hold the same keys, and the count is the sum of the cells.
Coherent(self) ==
    /\ \A n \in MapNames :
          CellKeys(self.answer_type_head[n]) = CellKeys(self.answer_type_head.count)
    /\ SumCells(self.answer_type_head.count) = self.count

\* C5: an update that fails (the normalizer raises, the scorer raises, the
\* list of ground truths is empty) raises to the caller and leaves every field
\* of the evaluator as it was; no state shows an update applied in part.
C5_FailedUpdateChangesNothing ==
    /\ [](Coherent(acc))
    /\ [][ret'.op = "call" /\ ret'.raised # "none"
            => /\ ret'.raised \in {"normalizer", "scorer", "ValueError"}
               /\ acc' = acc]_vars

C5_Witness ==
    /\ ret.op = "call"
    /\ ret.raised = "scorer"
    /\ acc.count = 2
    /\ Len(acc.answer_type_head.count) = 2

\* C6: the views summarize returns agree: the per_type_per_head counts of a
\* type add up to its per_type count, those of a head to its per_head count,
\* and the per_type counts and the per_head counts each add up to the count
\* of updates since the last reset.
C6_ViewsConsistent ==
    [][ret'.op = "get_metric"
          => /\ ret'.raised = "none"
             /\ ViewsConsistent(ret'.value, acc.count)
             /\ acc.count = updates]_vars

C6_Witness ==
    /\ ret.op = "get_metric"
    /\ Len(ret.value[3]) = 2
    /\ Len(ret.value[4]) = 2
    /\ \E i \in DOMAIN ret.value[2] : Len(ret.value[2][i].val) = 2
    /\ ViewsConsistent(ret.value, 3)

\* C8: summarize with reset returns the views summarize without reset returns
\* in the same state, and leaves the evaluator as a fresh one, on which
\* summarize returns zero averages and empty breakdowns, and does not fail.
C8_ResetAfterViews ==
    [][ret'.op = "get_metric" /\ ret'.reset
          => /\ ret'.raised = "none"
             /\ ret'.value = get_metric(acc, FALSE).value
             /\ acc' = FreshState
             /\ acc'.total = ZeroSums /\ acc'.count = 0
             /\ \A n \in MapNames : acc'.answer_type_head[n] = EmptyDict
             /\ get_metric(acc', FALSE).raised = "none"
             /\ get_metric(acc', FALSE).value = ZeroViews]_vars

C8_Witness ==
    /\ ret.op = "get_metric"
    /\ ret.reset
    /\ Len(ret.value[2]) = 2
    /\ ret.value[1] # <<0, 0, 0, 0>>
    /\ acc = FreshState

\* C10: the entry point __call__(prediction, ground_truths) fails in every
\* state and on every input, and leaves the evaluator as it was; the count of
\* examples grows only by a direct call.
C10_DunderCallFails ==
    [][/\ ret'.op = "__call__" => ret'.raised = "TypeError" /\ acc' = acc
       /\ acc'.count > acc.count => ret'.op = "call"]_vars

C10_Witness ==
    /\ ret.op = "__call__"
    /\ ret.raised = "TypeError"
    /\ acc.count = 2

----------------------------------------------------------------------------
(* Properties of one update: helpers, stated on the input, not on the loop *)

\* An update that returned.
Returned == ret.op = "call" /\ ret.raised = "none"

\* The answer strings of ground truth i (counted from 1) and its score.
InStrings(i) == inp.ground_truths[i].strings
ScoreOf(i) == inp.prediction[InStrings(i)].score

\* The score of the ground truth the update returned.
ReturnedScore == inp.prediction[ret.value[2].strings].score

\* Ground truth i has answer strings, and the first has nothing but blanks.
Excluded(i) ==
    /\ Len(InStrings(i)) > 0
    /\ \A k \in DOMAIN InStrings(i)[1] : InStrings(i)[1][k] \in Whitespace

Participants == {i \in DOMAIN inp.ground_truths : ~Excluded(i)}

SetMax(S) == CHOOSE x \in S : \A y \in S : y <= x

\* The maximum of component c over the participants up to i, 0 at least.
RunningMax(i, c) ==
    SetMax({0} \cup {ScoreOf(j)[c] : j \in {p \in Participants : p <= i}})

FinalMax == [c \in 1..4 |-> RunningMax(Len(inp.ground_truths), c)]

\* The participants whose four scores are the running maxima when they come.
Matching == {i \in Participants : \A c \in 1..4 : ScoreOf(i)[c] = RunningMax(i, c)}

\* The last of them, as a Python index; -1 when there is none.
LastMatching == IF Matching = {} THEN -1 ELSE SetMax(Matching) - 1
LastParticipant == IF Participants = {} THEN -1 ELSE SetMax(Participants) - 1

\* The loop's state after the first k ground truths.
LoopAfter(k) ==
    max_loop(inp.prediction, [i \in 1..k |-> InStrings(i)], 1, <<0, 0, 0, 0>>, -1)

\* The index the loop ends with.
MaximizingIndex == LoopAfter(Len(inp.ground_truths)).maximizing_index

AllScoresZero == \A i \in DOMAIN inp.ground_truths : ScoreOf(i) = ScoreZero

----------------------------------------------------------------------------
(* Properties of one update *)

C3_NoMatchKeepsMinusOne ==
    Returned /\ AllScoresZero =>
        /\ MaximizingIndex = -1
        /\ ret.value[2] = inp.ground_truths[Len(inp.ground_truths)]

\* C3, amended: when every ground truth scores (0, 0, 0, 0) the tuple is
\* (0, 0, 0, 0), the maximizing index is that of the last ground truth that
\* takes part (0 for the single ground truth "7", which is returned), and it
\* stays -1, the last ground truth of the list being returned, only when no
\* ground truth takes part.
C3_NoMatchSelectsLastParticipant ==
    Returned /\ AllScoresZero =>
        /\ ret.value[1] = ScoreZero
        /\ MaximizingIndex = LastParticipant
        /\ ret.value[2] = PyIndex(inp.ground_truths, LastParticipant)
        /\ MaximizingIndex = -1 <=> Participants = {}
        /\ Participants = {} => ret.value[2] = inp.ground_truths[Len(inp.ground_truths)]

C3_Witness ==
    /\ Returned
    /\ inp.ground_truths = <<Ann7>>
    /\ ScoreOf(1) = ScoreZero
    /\ MaximizingIndex = 0
    /\ ret.value = <<ScoreZero, Ann7>>

\* C4: a ground truth with answer strings whose first is empty or blank never
\* changes a running maximum and is never the maximizing index, whatever its
\* score; a ground truth with no answer string takes part; for the ground
\* truths "5" and "", both scored (1, 1, 1, 1), the index is 0 and "5" is
\* returned.
C4_BlankGroundTruthExcluded ==
    Returned =>
        /\ \A i \in DOMAIN inp.ground_truths :
              /\ Excluded(i) =>
                    /\ LoopAfter(i).max = LoopAfter(i - 1).max
                    /\ LoopAfter(i).maximizing_index = LoopAfter(i - 1).maximizing_index
                    /\ MaximizingIndex # i - 1
              /\ Len(InStrings(i)) = 0 =>
                    /\ \A c \in 1..4 :
                          LoopAfter(i).max[c] = Max2(LoopAfter(i - 1).max[c], ScoreOf(i)[c])
                    /\ ScoreOf(i) = LoopAfter(i).max => LoopAfter(i).maximizing_index = i - 1
        /\ (/\ inp.ground_truths = <<Ann5, AnnEmpty>>
            /\ ScoreOf(1) = ScoreOne
            /\ ScoreOf(2) = ScoreOne)
              => MaximizingIndex = 0 /\ ret.value[2] = Ann5

C4_Witness ==
    /\ Returned
    /\ inp.ground_truths = <<Ann5, AnnEmpty>>
    /\ ScoreOf(1) = ScoreOne
    /\ ScoreOf(2) = ScoreOne
    /\ ret.value = <<ScoreOne, Ann5>>

\* C9: the maximizing index is the last ground truth, among those that take
\* part, whose four scores each equal the running maximum when it is
\* processed: of several that tie the later is chosen, and one that raises a
\* maximum without equalling all four does not replace the index.
C9_LastMatchingIsChosen ==
    Returned =>
        /\ MaximizingIndex = LastMatching
        /\ ret.value[2] = PyIndex(inp.ground_truths, LastMatching)

C9_Witness ==
    /\ Returned
    /\ inp.ground_truths = <<Ann5, Ann7, AnnNone>>
    /\ ScoreOf(1) = ScoreP /\ ScoreOf(2) = ScoreP /\ ScoreOf(3) = ScoreR
    /\ MaximizingIndex = 1
    /\ ret.value = <<(<<0, 2, One, One>>), Ann7>>

----------------------------------------------------------------------------
(* Properties of the merge *)

\* Every example fed to the single evaluator has gone to a part.
AllShared == todo = EmptyBag

\* C7, as stated: two evaluators run on the two parts of the examples, in any
\* order, merge to the state of one evaluator run on them all.
C7_MergeEqualsWhole ==
    AllShared => Merge(parts[1], parts[2]) = Content(acc)

\* C7, amended: the merge has the count, the keys and the per-cell counts of
\* the single evaluator for any split and any order; its float sums are those
\* of the single evaluator when no addition rounded, and otherwise depend on
\* the grouping, float addition not being associative.
C7_MergeEqualsWholeUpToRounding ==
    AllShared =>
        LET merged == Merge(parts[1], parts[2])
            whole == Content(acc)
        IN  /\ merged.count = whole.count
            /\ merged.cells.count = whole.cells.count
            /\ \A n \in MapNames : DOMAIN merged.cells[n] = DOMAIN whole.cells[n]
            /\ (~rounded /\ ~MergeRounds(parts[1], parts[2])) => merged = whole

C7_Witness ==
    /\ AllShared
    /\ acc.count = 3
    /\ parts[1].count = 2
    /\ parts[2].count = 1
    /\ ~rounded
    /\ ~MergeRounds(parts[1], parts[2])
    /\ Cardinality(CellKeys(acc.answer_type_head.count)) = 2
    /\ Merge(parts[1], parts[2]) = Content(acc)
====
